---- MODULE Spec2Model ----
(***************************************************************************)
(* Model of src/src/api/pricing.ts: the pricing table MODEL_PRICING, the   *)
(* fallback DEFAULT_PRICING, the resolver getModelPricing and the          *)
(* calculator calculateCost.                                               *)
(*                                                                         *)
(* JavaScript values are tagged records (field t): undefined, strings      *)
(* (sequences of one-character strings, so that toLowerCase and includes   *)
(* are computed), numbers and object references.  A finite number is the   *)
(* exact rational n/d in lowest terms, so 18.75 is Dec(1875, 100); the     *)
(* rounding of IEEE doubles is not modelled.  NaN is a value of its own,   *)
(* as it is what arithmetic on undefined yields.                           *)
(***************************************************************************)
EXTENDS Integers, Sequences, FiniteSets, TLC

\* MODEL_PRICING, DEFAULT_PRICING: the two module-level objects
\* pc:      "idle", or "returned" when a call has just returned
\* call:    the function called and its arguments
\* ret:     the value the call returned
\* retLine: the line of the return statement that ended the call
\* earlier: a call made before, with what it returned (history)
VARIABLES MODEL_PRICING, DEFAULT_PRICING, pc, call, ret, retLine, earlier

vars == <<MODEL_PRICING, DEFAULT_PRICING, pc, call, ret, retLine, earlier>>

(***************************************************************************)
(* Bounds of the checked inputs.                                           *)
(***************************************************************************)
\* model strings are built from at most MaxParts fragments
MaxParts == 2
\* token counts range over MinK*TokenStep .. MaxK*TokenStep
MaxK == 2
\* the divisor of the per-million rates (pricing.ts lines 186-189)
Million == 1000000
\* token counts are drawn in multiples of TokenStep, half a million
TokenStep == Million \div 2

(***************************************************************************)
(* JavaScript values.                                                      *)
(***************************************************************************)
Undefined == [t |-> "undefined"]

NaN == [t |-> "NaN"]

Str(s) == [t |-> "string", s |-> s]

Abs(i) == IF i < 0 THEN -i ELSE i

RECURSIVE Gcd(_, _)
Gcd(a, b) == IF b = 0 THEN a ELSE Gcd(b, a % b)

\* the number n/d (d > 0), in lowest terms
Dec(n, d) ==
    LET g == Gcd(Abs(n), d)
    IN  [t |-> "number", n |-> n \div g, d |-> d \div g]

Int2Num(i) == Dec(i, 1)

IsNumber(v) == v.t = "number"

\* ToNumber: undefined converts to NaN
ToNumber(v) == IF IsNumber(v) THEN v ELSE NaN

\* ToBoolean: undefined, NaN, 0 and "" are falsy, every object is truthy
Truthy(v) ==
    CASE v.t = "undefined" -> FALSE
      [] v.t = "NaN"       -> FALSE
      [] v.t = "number"    -> v.n # 0
      [] v.t = "string"    -> Len(v.s) > 0
      [] v.t = "object"    -> TRUE

\* a || b
jsOr(a, b) == IF Truthy(a) THEN a ELSE b

\* a / b for a nonzero divisor b (the only divisor in the source is 1_000_000)
jsDiv(a, b) ==
    LET x == ToNumber(a)
        y == ToNumber(b)
    IN  IF ~IsNumber(x) \/ ~IsNumber(y) THEN NaN
        ELSE LET g1 == Gcd(Abs(x.n), Abs(y.n))
                 g2 == Gcd(x.d, y.d)
                 sg == IF y.n < 0 THEN -1 ELSE 1
             IN  IF x.n = 0 THEN Int2Num(0)
                 ELSE Dec(sg * (x.n \div g1) * (y.d \div g2),
                          (x.d \div g2) * (Abs(y.n) \div g1))

\* a * b
jsMul(a, b) ==
    LET x == ToNumber(a)
        y == ToNumber(b)
    IN  IF ~IsNumber(x) \/ ~IsNumber(y) THEN NaN
        ELSE LET g1 == Gcd(Abs(x.n), y.d)
                 g2 == Gcd(Abs(y.n), x.d)
             IN  Dec((x.n \div g1) * (y.n \div g2), (x.d \div g2) * (y.d \div g1))

\* a + b
jsAdd(a, b) ==
    LET x == ToNumber(a)
        y == ToNumber(b)
    IN  IF ~IsNumber(x) \/ ~IsNumber(y) THEN NaN
        ELSE LET g == Gcd(x.d, y.d)
                 l == (x.d \div g) * y.d
             IN  Dec(x.n * (l \div x.d) + y.n * (l \div y.d), l)

(***************************************************************************)
(* Strings.                                                                *)
(***************************************************************************)
UpperCase == <<"A", "B", "C", "D", "E", "F", "G", "H", "I", "J", "K", "L", "M",
               "N", "O", "P", "Q", "R", "S", "T", "U", "V", "W", "X", "Y", "Z">>

LowerCase == <<"a", "b", "c", "d", "e", "f", "g", "h", "i", "j", "k", "l", "m",
               "n", "o", "p", "q", "r", "s", "t", "u", "v", "w", "x", "y", "z">>

\* String.prototype.toLowerCase on ASCII
toLowerCase(s) ==
    [i \in 1..Len(s) |->
        IF \E j \in 1..26 : UpperCase[j] = s[i]
        THEN LowerCase[CHOOSE j \in 1..26 : UpperCase[j] = s[i]]
        ELSE s[i]]

\* String.prototype.includes
includes(s, sub) ==
    \E i \in 0..(Len(s) - Len(sub)) : SubSeq(s, i + 1, i + Len(sub)) = sub

(***************************************************************************)
(* The keys of MODEL_PRICING (pricing.ts lines 32-104).                    *)
(***************************************************************************)
\* 'claude-opus-4-5-20250514'
K_opus_4_5_20250514 ==
    <<"c", "l", "a", "u", "d", "e", "-", "o", "p", "u", "s", "-", "4", "-", "5", "-", "2", "0", "2", "5", "0", "5", "1", "4">>

\* 'claude-sonnet-4-20250514'
K_sonnet_4_20250514 ==
    <<"c", "l", "a", "u", "d", "e", "-", "s", "o", "n", "n", "e", "t", "-", "4", "-", "2", "0", "2", "5", "0", "5", "1", "4">>

\* 'claude-3-5-sonnet-20241022'
K_3_5_sonnet_20241022 ==
    <<"c", "l", "a", "u", "d", "e", "-", "3", "-", "5", "-", "s", "o", "n", "n", "e", "t", "-", "2", "0", "2", "4", "1", "0", "2", "2">>

\* 'claude-3-5-sonnet-latest'
K_3_5_sonnet_latest ==
    <<"c", "l", "a", "u", "d", "e", "-", "3", "-", "5", "-", "s", "o", "n", "n", "e", "t", "-", "l", "a", "t", "e", "s", "t">>

\* 'claude-3-5-sonnet-20240620'
K_3_5_sonnet_20240620 ==
    <<"c", "l", "a", "u", "d", "e", "-", "3", "-", "5", "-", "s", "o", "n", "n", "e", "t", "-", "2", "0", "2", "4", "0", "6", "2", "0">>

\* 'claude-3-5-haiku-20241022'
K_3_5_haiku_20241022 ==
    <<"c", "l", "a", "u", "d", "e", "-", "3", "-", "5", "-", "h", "a", "i", "k", "u", "-", "2", "0", "2", "4", "1", "0", "2", "2">>

\* 'claude-3-5-haiku-latest'
K_3_5_haiku_latest ==
    <<"c", "l", "a", "u", "d", "e", "-", "3", "-", "5", "-", "h", "a", "i", "k", "u", "-", "l", "a", "t", "e", "s", "t">>

\* 'claude-3-opus-20240229'
K_3_opus_20240229 ==
    <<"c", "l", "a", "u", "d", "e", "-", "3", "-", "o", "p", "u", "s", "-", "2", "0", "2", "4", "0", "2", "2", "9">>

\* 'claude-3-opus-latest'
K_3_opus_latest ==
    <<"c", "l", "a", "u", "d", "e", "-", "3", "-", "o", "p", "u", "s", "-", "l", "a", "t", "e", "s", "t">>

\* 'claude-3-sonnet-20240229'
K_3_sonnet_20240229 ==
    <<"c", "l", "a", "u", "d", "e", "-", "3", "-", "s", "o", "n", "n", "e", "t", "-", "2", "0", "2", "4", "0", "2", "2", "9">>

\* 'claude-3-haiku-20240307'
K_3_haiku_20240307 ==
    <<"c", "l", "a", "u", "d", "e", "-", "3", "-", "h", "a", "i", "k", "u", "-", "2", "0", "2", "4", "0", "3", "0", "7">>

(***************************************************************************)
(* The substrings of the family rules (pricing.ts lines 136-154).          *)
(***************************************************************************)
S_opus_4 == <<"o", "p", "u", "s", "-", "4">>

S_opus_4dot5 == <<"o", "p", "u", "s", "-", "4", ".", "5">>

S_sonnet_4 == <<"s", "o", "n", "n", "e", "t", "-", "4">>

S_3_5_sonnet == <<"3", "-", "5", "-", "s", "o", "n", "n", "e", "t">>

S_3dot5_sonnet == <<"3", ".", "5", "-", "s", "o", "n", "n", "e", "t">>

S_3_5_haiku == <<"3", "-", "5", "-", "h", "a", "i", "k", "u">>

S_3dot5_haiku == <<"3", ".", "5", "-", "h", "a", "i", "k", "u">>

S_opus == <<"o", "p", "u", "s">>

S_haiku == <<"h", "a", "i", "k", "u">>

S_sonnet == <<"s", "o", "n", "n", "e", "t">>

(***************************************************************************)
(* The pricing table and the default record.                               *)
(***************************************************************************)
\* mutant: the two cache rates are stored in each other's field
ModelPricing_cacheSwapped(input, output, cacheWrite, cacheRead) ==
    [inputPer1M |-> input, outputPer1M |-> output,
     cacheWritePer1M |-> cacheRead, cacheReadPer1M |-> cacheWrite]

ModelPricing(input, output, cacheWrite, cacheRead) ==
    [inputPer1M |-> input, outputPer1M |-> output,
     cacheWritePer1M |-> cacheWrite, cacheReadPer1M |-> cacheRead]

\* the object literal of pricing.ts lines 30-110
MODEL_PRICING_literal ==
       (K_opus_4_5_20250514 :>
            ModelPricing(Dec(15, 1), Dec(75, 1), Dec(1875, 100), Dec(15, 10)))
    @@ (K_sonnet_4_20250514 :>
            ModelPricing(Dec(3, 1), Dec(15, 1), Dec(375, 100), Dec(30, 100)))
    @@ (K_3_5_sonnet_20241022 :>
            ModelPricing(Dec(3, 1), Dec(15, 1), Dec(375, 100), Dec(30, 100)))
    @@ (K_3_5_sonnet_latest :>
            ModelPricing(Dec(3, 1), Dec(15, 1), Dec(375, 100), Dec(30, 100)))
    @@ (K_3_5_sonnet_20240620 :>
            ModelPricing(Dec(3, 1), Dec(15, 1), Dec(375, 100), Dec(30, 100)))
    @@ (K_3_5_haiku_20241022 :>
            ModelPricing(Dec(80, 100), Dec(4, 1), Dec(100, 100), Dec(8, 100)))
    @@ (K_3_5_haiku_latest :>
            ModelPricing(Dec(80, 100), Dec(4, 1), Dec(100, 100), Dec(8, 100)))
    @@ (K_3_opus_20240229 :>
            ModelPricing(Dec(15, 1), Dec(75, 1), Dec(1875, 100), Dec(15, 10)))
    @@ (K_3_opus_latest :>
            ModelPricing(Dec(15, 1), Dec(75, 1), Dec(1875, 100), Dec(15, 10)))
    @@ (K_3_sonnet_20240229 :>
            ModelPricing(Dec(3, 1), Dec(15, 1), Dec(375, 100), Dec(30, 100)))
    @@ (K_3_haiku_20240307 :>
            ModelPricing(Dec(25, 100), Dec(125, 100), Dec(3125, 10000), Dec(25, 1000)))

\* the object literal of pricing.ts lines 113-118
DEFAULT_PRICING_literal ==
    ModelPricing(Dec(3, 1), Dec(15, 1), Dec(375, 100), Dec(30, 100))

(***************************************************************************)
(* Objects.  getModelPricing returns a reference, not a copy: two entries  *)
(* with the same rates are still two objects.                              *)
(***************************************************************************)
\* the entry MODEL_PRICING[key]
Entry(key) == [t |-> "object", obj |-> "MODEL_PRICING", key |-> key]

\* the object DEFAULT_PRICING
DefaultRef == [t |-> "object", obj |-> "DEFAULT_PRICING", key |-> <<>>]

\* a member that every object inherits from Object.prototype
Inherited(name) == [t |-> "object", obj |-> "Object.prototype", key |-> name]

\* the property names MODEL_PRICING inherits: it is an object literal, so a
\* lookup that finds no key of its own goes on to Object.prototype
ObjectPrototypeNames ==
    {
      <<"c", "o", "n", "s", "t", "r", "u", "c", "t", "o", "r">>,
      <<"t", "o", "S", "t", "r", "i", "n", "g">>,
      <<"t", "o", "L", "o", "c", "a", "l", "e", "S", "t", "r", "i", "n", "g">>,
      <<"v", "a", "l", "u", "e", "O", "f">>,
      <<"h", "a", "s", "O", "w", "n", "P", "r", "o", "p", "e", "r", "t", "y">>,
      <<"i", "s", "P", "r", "o", "t", "o", "t", "y", "p", "e", "O", "f">>,
      <<"p", "r", "o", "p", "e", "r", "t", "y", "I", "s", "E", "n", "u", "m", "e", "r", "a", "b", "l", "e">>,
      <<"_", "_", "p", "r", "o", "t", "o", "_", "_">>,
      <<"_", "_", "d", "e", "f", "i", "n", "e", "G", "e", "t", "t", "e", "r", "_", "_">>,
      <<"_", "_", "d", "e", "f", "i", "n", "e", "S", "e", "t", "t", "e", "r", "_", "_">>,
      <<"_", "_", "l", "o", "o", "k", "u", "p", "G", "e", "t", "t", "e", "r", "_", "_">>,
      <<"_", "_", "l", "o", "o", "k", "u", "p", "S", "e", "t", "t", "e", "r", "_", "_">>
    }

\* MODEL_PRICING[model]
Lookup(model) ==
    IF model \in DOMAIN MODEL_PRICING THEN Entry(model)
    ELSE IF model \in ObjectPrototypeNames THEN Inherited(model)
    ELSE Undefined

\* pricing.<field>: the inherited members (functions, Object.prototype) have
\* none of the four rate properties
Field(pricing, field) ==
    CASE pricing.obj = "MODEL_PRICING"    -> MODEL_PRICING[pricing.key][field]
      [] pricing.obj = "DEFAULT_PRICING"  -> DEFAULT_PRICING[field]
      [] pricing.obj = "Object.prototype" -> Undefined

(***************************************************************************)
(* getModelPricing (pricing.ts lines 123-159).  The result is the returned *)
(* value and the line of the return statement that produced it.            *)
(***************************************************************************)
Return(value, line) == [value |-> value, line |-> line]

\* the family rules, lines 136-158: modelLower is the lower-cased identifier
FamilyPricing(modelLower) ==
    IF includes(modelLower, S_opus_4) \/ includes(modelLower, S_opus_4dot5)
        THEN Return(Lookup(K_opus_4_5_20250514), 137)
    ELSE IF includes(modelLower, S_sonnet_4)
        THEN Return(Lookup(K_sonnet_4_20250514), 140)
    ELSE IF includes(modelLower, S_3_5_sonnet) \/ includes(modelLower, S_3dot5_sonnet)
        THEN Return(Lookup(K_3_5_sonnet_20241022), 143)
    ELSE IF includes(modelLower, S_3_5_haiku) \/ includes(modelLower, S_3dot5_haiku)
        THEN Return(Lookup(K_3_5_haiku_20241022), 146)
    ELSE IF includes(modelLower, S_opus)
        THEN Return(Lookup(K_3_opus_20240229), 149)
    ELSE IF includes(modelLower, S_haiku)
        THEN Return(Lookup(K_3_haiku_20240307), 152)
    ELSE IF includes(modelLower, S_sonnet)
        THEN Return(Lookup(K_3_5_sonnet_20241022), 155)
    ELSE Return(DefaultRef, 158)

\* mutant: the family rules are tried before the direct match
getModelPricing_familyFirst(model) ==
    IF ~Truthy(model) THEN Return(DefaultRef, 125)
    ELSE IF FamilyPricing(toLowerCase(model.s)).line # 158
        THEN FamilyPricing(toLowerCase(model.s))
    ELSE IF Truthy(Lookup(model.s)) THEN Return(Lookup(model.s), 130)
    ELSE Return(DefaultRef, 158)

\* mutant: the generic "opus" rule is tested before the "opus-4" rule
getModelPricing_genericFirst(model) ==
    IF ~Truthy(model) THEN Return(DefaultRef, 125)
    ELSE IF Truthy(Lookup(model.s)) THEN Return(Lookup(model.s), 130)
    ELSE IF includes(toLowerCase(model.s), S_opus)
        THEN Return(Lookup(K_3_opus_20240229), 149)
    ELSE FamilyPricing(toLowerCase(model.s))

\* mutant: the generic "sonnet" rule resolves to the Claude 3 Sonnet entry
getModelPricing_sonnet3(model) ==
    IF ~Truthy(model) THEN Return(DefaultRef, 125)
    ELSE IF Truthy(Lookup(model.s)) THEN Return(Lookup(model.s), 130)
    ELSE IF FamilyPricing(toLowerCase(model.s)).line = 155
        THEN Return(Lookup(K_3_sonnet_20240229), 155)
    ELSE FamilyPricing(toLowerCase(model.s))

getModelPricing(model) ==
    IF ~Truthy(model) THEN Return(DefaultRef, 125)
    ELSE IF Truthy(Lookup(model.s)) THEN Return(Lookup(model.s), 130)
    ELSE LET modelLower == toLowerCase(model.s)
         IN  FamilyPricing(modelLower)

(***************************************************************************)
(* calculateCost (pricing.ts lines 183-198).                               *)
(***************************************************************************)
UsageTokens(input, output, cacheCreation, cacheRead) ==
    [input_tokens |-> input, output_tokens |-> output,
     cache_creation_input_tokens |-> cacheCreation,
     cache_read_input_tokens |-> cacheRead]

calculateCost(usage, model) ==
    LET pricing == getModelPricing(model).value
        inputCost ==
            jsMul(jsDiv(usage.input_tokens, Int2Num(Million)),
                  Field(pricing, "inputPer1M"))
        outputCost ==
            jsMul(jsDiv(usage.output_tokens, Int2Num(Million)),
                  Field(pricing, "outputPer1M"))
        cacheWriteCost ==
            jsMul(jsDiv(jsOr(usage.cache_creation_input_tokens, Int2Num(0)),
                        Int2Num(Million)),
                  Field(pricing, "cacheWritePer1M"))
        cacheReadCost ==
            jsMul(jsDiv(jsOr(usage.cache_read_input_tokens, Int2Num(0)),
                        Int2Num(Million)),
                  Field(pricing, "cacheReadPer1M"))
    IN  [total |-> jsAdd(jsAdd(jsAdd(inputCost, outputCost), cacheWriteCost),
                         cacheReadCost),
         input |-> inputCost,
         output |-> outputCost,
         cacheWrite |-> cacheWriteCost,
         cacheRead |-> cacheReadCost]

(***************************************************************************)
(* The inputs.                                                             *)
(***************************************************************************)
\* "SONNET"
S_SONNET == <<"S", "O", "N", "N", "E", "T">>

Fragments ==
    { <<"c", "l", "a", "u", "d", "e", "-">>,
      <<"o", "p", "u", "s">>,
      <<"O", "p", "u", "s">>,
      <<"-", "4">>,
      <<".", "5">>,
      <<"s", "o", "n", "n", "e", "t">>,
      S_SONNET,
      <<"3", "-", "5", "-">>,
      <<"3", ".", "5", "-">>,
      <<"h", "a", "i", "k", "u">> }

\* the strings made of at most k fragments
RECURSIVE Concats(_)
Concats(k) ==
    IF k = 0 THEN {<<>>}
    ELSE Concats(k - 1) \cup {a \o f : a \in Concats(k - 1), f \in Fragments}

\* "Claude-Opus-4-5-Preview"
M_Claude_Opus_4_5_Preview ==
    <<"C", "l", "a", "u", "d", "e", "-", "O", "p", "u", "s", "-", "4", "-", "5", "-", "P", "r", "e", "v", "i", "e", "w">>

\* "totally-unknown-model-xyz"
M_totally_unknown_model_xyz ==
    <<"t", "o", "t", "a", "l", "l", "y", "-", "u", "n", "k", "n", "o", "w", "n", "-", "m", "o", "d", "e", "l", "-", "x", "y", "z">>

\* "constructor"
M_constructor ==
    <<"c", "o", "n", "s", "t", "r", "u", "c", "t", "o", "r">>

\* the strings of at most k fragments, the keys of the table, the names
\* every object inherits, and two strings that name no model
ModelStrings(k) ==
    Concats(k) \cup DOMAIN MODEL_PRICING_literal \cup ObjectPrototypeNames
        \cup {M_Claude_Opus_4_5_Preview, M_totally_unknown_model_xyz}

\* model?: string, as getModelPricing is called
Models == {Undefined} \cup {Str(s) : s \in ModelStrings(MaxParts)}

\* model?: string, as calculateCost is called: it hands the model on to
\* getModelPricing unchanged, so one fragment less is drawn here
CostModels == {Undefined} \cup {Str(s) : s \in ModelStrings(MaxParts - 1)}

TokenCounts == {Int2Num(k * TokenStep) : k \in (-1)..MaxK}

Usages ==
    {UsageTokens(i, o, cw, cr) :
        i \in TokenCounts, o \in TokenCounts,
        cw \in TokenCounts \cup {Undefined}, cr \in TokenCounts \cup {Undefined}}

(***************************************************************************)
(* The state machine: a caller calls one of the two exported functions,    *)
(* gets the result and goes on.                                            *)
(***************************************************************************)
NoUsage == UsageTokens(Undefined, Undefined, Undefined, Undefined)

Call(fn, usage, model) == [fn |-> fn, usage |-> usage, model |-> model]

NoCall == Call("none", NoUsage, Undefined)

NoEarlier == [call |-> NoCall, ret |-> Undefined, between |-> FALSE]

\* the history: whether a different call happened since the remembered one
Track(c) ==
    IF earlier = NoEarlier THEN earlier
    ELSE [earlier EXCEPT !.between = @ \/ c # earlier.call]

Init ==
    /\ MODEL_PRICING = MODEL_PRICING_literal
    /\ DEFAULT_PRICING = DEFAULT_PRICING_literal
    /\ pc = "idle"
    /\ call = NoCall
    /\ ret = Undefined
    /\ retLine = 0
    /\ earlier = NoEarlier

\* mutant: a resolution by family is cached in the table under the identifier
GetModelPricingCall_caching(models) ==
    /\ pc = "idle"
    /\ \E model \in models :
        /\ pc' = "returned"
        /\ call' = Call("getModelPricing", NoUsage, model)
        /\ ret' = getModelPricing(model).value
        /\ retLine' = getModelPricing(model).line
        /\ earlier' = Track(call')
        /\ MODEL_PRICING' =
              IF getModelPricing(model).line \in {137, 140, 143, 146, 149, 152, 155}
              THEN (model.s :> MODEL_PRICING[getModelPricing(model).value.key])
                       @@ MODEL_PRICING
              ELSE MODEL_PRICING
        /\ UNCHANGED DEFAULT_PRICING

\* a call of getModelPricing with any model of the set models
GetModelPricingCall(models) ==
    /\ pc = "idle"
    /\ \E model \in models :
        /\ pc' = "returned"
        /\ call' = Call("getModelPricing", NoUsage, model)
        /\ ret' = getModelPricing(model).value
        /\ retLine' = getModelPricing(model).line
        /\ earlier' = Track(call')
        /\ UNCHANGED <<MODEL_PRICING, DEFAULT_PRICING>>

\* a call of calculateCost with any usage and any model of the two sets
CalculateCostCall(usages, models) ==
    /\ pc = "idle"
    /\ \E usage \in usages, model \in models :
        /\ pc' = "returned"
        /\ call' = Call("calculateCost", usage, model)
        /\ ret' = calculateCost(usage, model)
        /\ retLine' = 191
        /\ earlier' = Track(call')
        /\ UNCHANGED <<MODEL_PRICING, DEFAULT_PRICING>>

\* the caller has the result; nothing of the call is retained
Consume ==
    /\ pc = "returned"
    /\ pc' = "idle"
    /\ call' = NoCall
    /\ ret' = Undefined
    /\ retLine' = 0
    /\ UNCHANGED <<MODEL_PRICING, DEFAULT_PRICING, earlier>>

\* history only: remember the call that has just returned
Remember ==
    /\ pc = "returned"
    /\ earlier = NoEarlier
    /\ earlier' = [call |-> call, ret |-> ret, between |-> FALSE]
    /\ UNCHANGED <<MODEL_PRICING, DEFAULT_PRICING, pc, call, ret, retLine>>

Next ==
    \/ GetModelPricingCall(Models)
    \/ CalculateCostCall(Usages, CostModels)
    \/ Consume

Spec == Init /\ [][Next]_vars

(***************************************************************************)
(* The specification of repeated calls: the same machine on a few models   *)
(* and usages, with one earlier call remembered.                           *)
(***************************************************************************)
ReplayModels ==
    {Undefined, Str(<<>>), Str(K_3_5_sonnet_latest), Str(M_Claude_Opus_4_5_Preview),
     Str(M_constructor), Str(M_totally_unknown_model_xyz)}

ReplayUsages ==
    {UsageTokens(i, o, cw, cr) :
        i \in {Int2Num(0), Int2Num(TokenStep)}, o \in {Int2Num(0), Int2Num(MaxK * TokenStep)},
        cw \in {Undefined, Int2Num(TokenStep)}, cr \in {Undefined, Int2Num(-TokenStep)}}

NextReplay ==
    \/ GetModelPricingCall(ReplayModels)
    \/ CalculateCostCall(ReplayUsages, ReplayModels)
    \/ Remember
    \/ Consume

SpecReplay == Init /\ [][NextReplay]_vars

(***************************************************************************)
(* The claims.                                                             *)
(***************************************************************************)
Returned(fn) == pc = "returned" /\ call.fn = fn

\* a === b on primitives: NaN equals nothing, not even itself
jsStrictEq(a, b) == a.t # "NaN" /\ b.t # "NaN" /\ a = b

\* a >= 0 and a < 0: both false of NaN
jsNonNegative(a) == IsNumber(a) /\ a.n >= 0

jsNegative(a) == IsNumber(a) /\ a.n < 0

RateFields == {"inputPer1M", "outputPer1M", "cacheWritePer1M", "cacheReadPer1M"}

\* the records a caller can use: DEFAULT_PRICING and the entries of the table
UsableRecords == {DefaultRef} \cup {Entry(k) : k \in DOMAIN MODEL_PRICING}

\* the family rules as the specification lists them, (a) to (g)
FamilyRules ==
    << [subs |-> {S_opus_4, S_opus_4dot5},       target |-> K_opus_4_5_20250514],
       [subs |-> {S_sonnet_4},                   target |-> K_sonnet_4_20250514],
       [subs |-> {S_3_5_sonnet, S_3dot5_sonnet}, target |-> K_3_5_sonnet_20241022],
       [subs |-> {S_3_5_haiku, S_3dot5_haiku},   target |-> K_3_5_haiku_20241022],
       [subs |-> {S_opus},                       target |-> K_3_opus_20240229],
       [subs |-> {S_haiku},                      target |-> K_3_haiku_20240307],
       [subs |-> {S_sonnet},                     target |-> K_3_5_sonnet_20241022] >>

\* rule i applies to the lower-cased form of the string s
RuleMatches(i, s) == \E sub \in FamilyRules[i].subs : includes(toLowerCase(s), sub)

\* rule i is the first rule that applies to s
FirstRule(i, s) == RuleMatches(i, s) /\ \A j \in 1..(i - 1) : ~RuleMatches(j, s)

\* C1: every input string makes getModelPricing return a usable record, that
\* is DEFAULT_PRICING or an entry of the table, with four numeric rates.
C1_EveryStringYieldsUsableRecord ==
    Returned("getModelPricing") /\ call.model.t = "string" =>
        /\ ret \in UsableRecords
        /\ \A f \in RateFields : IsNumber(Field(ret, f))

\* C2: for every key k of the table getModelPricing(k) returns the entry
\* stored under k, whichever family rules k also satisfies.
C2_ExactMatchBeatsFamily ==
    Returned("getModelPricing") /\ call.model.t = "string"
        /\ call.model.s \in DOMAIN MODEL_PRICING
    => ret = Entry(call.model.s) /\ retLine = 130

\* C2 is witnessed by an alias key that the family rules would send elsewhere.
C2_Witness ==
    /\ Returned("getModelPricing")
    /\ call.model = Str(K_3_5_sonnet_latest)
    /\ FirstRule(3, K_3_5_sonnet_latest)
    /\ ret = Entry(K_3_5_sonnet_latest)
    /\ ret # Entry(K_3_5_sonnet_20241022)

\* C3: a present string that is no key of the table resolves to the record of
\* the first family rule, in the order (a) to (g), whose substring its
\* lower-cased form contains; later rules and letter case decide nothing.
C3_FirstFamilyRuleWins ==
    Returned("getModelPricing") /\ call.model.t = "string"
        /\ call.model.s \notin DOMAIN MODEL_PRICING
    => \A i \in 1..Len(FamilyRules) :
          FirstRule(i, call.model.s) => ret = Entry(FamilyRules[i].target)

\* C3 is witnessed by "Claude-Opus-4-5-Preview": mixed case, rules (a) and (e)
\* both apply, and the Opus 4.5 entry is returned.
C3_Witness ==
    /\ Returned("getModelPricing")
    /\ call.model = Str(M_Claude_Opus_4_5_Preview)
    /\ ~includes(M_Claude_Opus_4_5_Preview, S_opus)
    /\ RuleMatches(1, M_Claude_Opus_4_5_Preview)
    /\ RuleMatches(5, M_Claude_Opus_4_5_Preview)
    /\ ret = Entry(K_opus_4_5_20250514)

\* C4: getModelPricing returns DEFAULT_PRICING (3, 15, 3.75, 0.30) when the
\* model is absent, without any matching, and for every present string that
\* is no key of the table and contains no family substring.
C4_DefaultForAbsentAndUnmatched ==
    Returned("getModelPricing") =>
        /\ call.model = Undefined =>
              /\ ret = DefaultRef
              /\ retLine = 125
              /\ DEFAULT_PRICING =
                    ModelPricing(Dec(3, 1), Dec(15, 1), Dec(375, 100), Dec(30, 100))
        /\ ( /\ call.model.t = "string"
             /\ call.model.s \notin DOMAIN MODEL_PRICING
             /\ \A i \in 1..Len(FamilyRules) : ~RuleMatches(i, call.model.s) )
           => ret = DefaultRef

\* the four components of a breakdown with the count and the rate of each
Components ==
    { [cost |-> "input", count |-> "input_tokens", rate |-> "inputPer1M"],
      [cost |-> "output", count |-> "output_tokens", rate |-> "outputPer1M"],
      [cost |-> "cacheWrite", count |-> "cache_creation_input_tokens",
       rate |-> "cacheWritePer1M"],
      [cost |-> "cacheRead", count |-> "cache_read_input_tokens",
       rate |-> "cacheReadPer1M"] }

\* a count, an absent one being 0
CountOf(usage, c) == IF usage[c.count] = Undefined THEN Int2Num(0) ELSE usage[c.count]

\* C5: each component of calculateCost equals (count / 1,000,000) x rate,
\* the rate being the field of the record getModelPricing returns for the
\* model and an absent count being 0; that is, component x 1,000,000 equals
\* count x rate.
C5_ComponentIsCountTimesRate ==
    Returned("calculateCost") =>
        \A c \in Components :
            LET rate == Field(getModelPricing(call.model).value, c.rate)
            IN  /\ IsNumber(rate)
                /\ jsStrictEq(jsMul(ret[c.cost], Int2Num(Million)),
                              jsMul(CountOf(call.usage, c), rate))

\* C6: the total of every breakdown equals input + output + cacheWrite +
\* cacheRead of that breakdown, and is 0 when every count is 0.
C6_TotalIsSumOfComponents ==
    Returned("calculateCost") =>
        /\ jsStrictEq(ret.total,
              jsAdd(jsAdd(jsAdd(ret.input, ret.output), ret.cacheWrite), ret.cacheRead))
        /\ (\A c \in Components : CountOf(call.usage, c) = Int2Num(0))
              => ret.total = Int2Num(0)

\* the same call was made before, and another call in between
Replayed == pc = "returned" /\ earlier # NoEarlier /\ call = earlier.call

\* C7: the table and DEFAULT_PRICING never change, and a call with the
\* arguments of an earlier call returns what the earlier call returned.
C7_NoHiddenState ==
    /\ MODEL_PRICING = MODEL_PRICING_literal
    /\ DEFAULT_PRICING = DEFAULT_PRICING_literal
    /\ Replayed => ret = earlier.ret

\* C7 is witnessed by a family-resolved getModelPricing call repeated after a
\* different call.
C7_Witness ==
    /\ Replayed
    /\ earlier.between
    /\ call.fn = "getModelPricing"
    /\ call.model = Str(M_Claude_Opus_4_5_Preview)
    /\ ret = earlier.ret

\* cacheWrite = input x 1.25 and cacheRead = input x 0.10, on the decimal
\* values of the literals (as doubles 3 * 0.10 and 0.30 differ in the last bit)
Convention(r) ==
    /\ r.cacheWritePer1M = jsMul(r.inputPer1M, Dec(125, 100))
    /\ r.cacheReadPer1M = jsMul(r.inputPer1M, Dec(10, 100))

\* C8: every record of the table, and DEFAULT_PRICING, has a cache-write
\* rate of input x 1.25 and a cache-read rate of input x 0.10.
C8_CacheRateConvention ==
    /\ \A k \in DOMAIN MODEL_PRICING : Convention(MODEL_PRICING[k])
    /\ Convention(DEFAULT_PRICING)

\* C8 is witnessed by the Claude 3 Haiku entry, returned with the rates
\* 0.25, 0.3125 and 0.025.
C8_Witness ==
    /\ Returned("getModelPricing")
    /\ ret = Entry(K_3_haiku_20240307)
    /\ Field(ret, "inputPer1M") = Dec(25, 100)
    /\ Field(ret, "cacheWritePer1M") = Dec(3125, 10000)
    /\ Field(ret, "cacheReadPer1M") = Dec(25, 1000)

\* C9: when no count is negative all five fields of the breakdown are
\* non-negative, and a negative count makes its component negative.
C9_SignOfCosts ==
    Returned("calculateCost") =>
        /\ (\A c \in Components : jsNonNegative(CountOf(call.usage, c)))
              => /\ \A c \in Components : jsNonNegative(ret[c.cost])
                 /\ jsNonNegative(ret.total)
        /\ \A c \in Components :
              jsNegative(CountOf(call.usage, c)) => jsNegative(ret[c.cost])

\* C10: the Claude 3 Sonnet entry is returned only for its own key; every
\* other string that contains "sonnet" in any case and meets no earlier
\* family rule gets the 3.5 Sonnet entry of key claude-3-5-sonnet-20241022.
C10_GenericSonnetIsSonnet35 ==
    Returned("getModelPricing") /\ call.model.t = "string" =>
        /\ ret = Entry(K_3_sonnet_20240229) => call.model.s = K_3_sonnet_20240229
        /\ (call.model.s # K_3_sonnet_20240229 /\ FirstRule(7, call.model.s))
              => ret = Entry(K_3_5_sonnet_20241022)

\* C10 is witnessed by "-4SONNET", which only rule (g) matches.
C10_Witness ==
    /\ Returned("getModelPricing")
    /\ call.model = Str(<<"-", "4">> \o S_SONNET)
    /\ FirstRule(7, call.model.s)
    /\ retLine = 155
    /\ ret = Entry(K_3_5_sonnet_20241022)

====
